---- MODULE Spec2Model ----
(***************************************************************************)
(* The CPU core of Naymoll/nes_emulator: the status register (CpuFlags),   *)
(* the register file (CPU), the instruction table (Instruction::from_code) *)
(* and the raw-bytes execution loop (CPU::execute_commands).               *)
(***************************************************************************)
EXTENDS Integers, Sequences, FiniteSets, TLC

\* u8 and u16 value ranges.
Byte == 0 .. 255
U16 == 65536

\* x & y on naturals.
RECURSIVE BitAnd(_, _)
BitAnd(x, y) ==
    IF x = 0 \/ y = 0 THEN 0
    ELSE (x % 2) * (y % 2) + 2 * BitAnd(x \div 2, y \div 2)

\* x | y on naturals.
RECURSIVE BitOr(_, _)
BitOr(x, y) ==
    IF x = 0 THEN y
    ELSE IF y = 0 THEN x
    ELSE (IF x % 2 = 1 \/ y % 2 = 1 THEN 1 ELSE 0) + 2 * BitOr(x \div 2, y \div 2)

\* !x on a u8.
BitNot(x) == 255 - x

(***************************************************************************)
(* bitflags! CpuFlags: u8                                                  *)
(***************************************************************************)
CARRY == \b00000001
ZERO == \b00000010
INTERRUPT_DISABLE == \b00000100
DECIMAL_MODE == \b00001000
BREAK == \b00010000
ONE == \b00100000
OVERFLOW == \b01000000
NEGATIVE == \b10000000

\* CpuFlags::contains: every bit of flag is in bits.
contains(bits, flag) == BitAnd(bits, flag) = flag

\* CpuFlags::insert.
insert(bits, flag) == BitOr(bits, flag)

\* CpuFlags::remove without the complement of the flag.
remove_uncomplemented(bits, flag) == BitAnd(bits, flag)

\* CpuFlags::remove.
remove(bits, flag) == BitAnd(bits, BitNot(flag))

\* CpuFlags::set: insert the flag when value is true, remove it otherwise.
set(bits, flag, value) == IF value THEN insert(bits, flag) ELSE remove(bits, flag)

(***************************************************************************)
(* Instruction and its table.                                              *)
(***************************************************************************)
\* Instruction::new with the opcode and len fields filled from each other.
Instruction_new_swapped(opcode, len, cycle, addressing_mode) ==
    [opcode |-> len, len |-> opcode, cycle |-> cycle,
     addressing_mode |-> addressing_mode]

Instruction_new(opcode, len, cycle, addressing_mode) ==
    [opcode |-> opcode, len |-> len, cycle |-> cycle,
     addressing_mode |-> addressing_mode]

\* The outcome of unimplemented!(msg): the thread panics with this message.
unimplemented(msg) == [panic |-> msg]

from_code(code) ==
    \* ADC
    CASE code = \h69 -> Instruction_new(code, 2, 2, "Immediate")
      [] code = \h65 -> Instruction_new(code, 2, 3, "ZeroPage")
      [] code = \h75 -> Instruction_new(code, 2, 4, "ZeroPageX")
      [] code = \h6D -> Instruction_new(code, 3, 4, "Absolute")
      [] code = \h7D -> Instruction_new(code, 3, 4, "AbsoluteX")
      [] code = \h79 -> Instruction_new(code, 3, 4, "AbsoluteY")
      [] code = \h61 -> Instruction_new(code, 2, 6, "IndirectX")
      [] code = \h71 -> Instruction_new(code, 2, 5, "IndirectY")
    \* AND
      [] code = \h29 -> Instruction_new(code, 2, 2, "Immediate")
      [] code = \h25 -> Instruction_new(code, 2, 3, "ZeroPage")
      [] code = \h35 -> Instruction_new(code, 2, 4, "ZeroPageX")
      [] code = \h2D -> Instruction_new(code, 3, 4, "Absolute")
      [] code = \h3D -> Instruction_new(code, 3, 4, "AbsoluteX")
      [] code = \h39 -> Instruction_new(code, 3, 4, "AbsoluteY")
      [] code = \h21 -> Instruction_new(code, 2, 6, "IndirectX")
      [] code = \h31 -> Instruction_new(code, 2, 5, "IndirectY")
    \* AHX
      [] code = \h93 -> Instruction_new(code, 2, 8, "IndirectY")
      [] code = \h9F -> Instruction_new(code, 3, 4, "AbsoluteY")
    \* ALR
      [] code = \h4B -> Instruction_new(code, 2, 2, "Immediate")
    \* ANC
      [] code = \h0B -> Instruction_new(code, 2, 2, "Immediate")
      [] code = \h2B -> Instruction_new(code, 2, 2, "Immediate")
    \* ARR
      [] code = \h6B -> Instruction_new(code, 2, 2, "Immediate")
    \* ASL
      [] code = \h0A -> Instruction_new(code, 1, 2, "Accumulator")
      [] code = \h06 -> Instruction_new(code, 2, 5, "ZeroPage")
      [] code = \h16 -> Instruction_new(code, 2, 6, "ZeroPageX")
      [] code = \h0E -> Instruction_new(code, 3, 6, "Absolute")
      [] code = \h1E -> Instruction_new(code, 3, 7, "AbsoluteX")
    \* AXS
      [] code = \hCB -> Instruction_new(code, 2, 2, "Immediate")
    \* BCC
      [] code = \h90 -> Instruction_new(code, 2, 2, "Relative")
    \* BCS
      [] code = \hB0 -> Instruction_new(code, 2, 2, "Relative")
    \* BEQ
      [] code = \hF0 -> Instruction_new(code, 2, 2, "Relative")
    \* BIT
      [] code = \h24 -> Instruction_new(code, 2, 3, "ZeroPage")
      [] code = \h2C -> Instruction_new(code, 3, 4, "Absolute")
    \* BMI
      [] code = \h30 -> Instruction_new(code, 2, 2, "Relative")
    \* BNE
      [] code = \hD0 -> Instruction_new(code, 2, 2, "Relative")
    \* BPL
      [] code = \h10 -> Instruction_new(code, 2, 2, "Relative")
    \* BRK
      [] code = \h00 -> Instruction_new(code, 1, 7, "Implied")
    \* BVC
      [] code = \h50 -> Instruction_new(code, 2, 2, "Relative")
    \* BVS
      [] code = \h70 -> Instruction_new(code, 2, 2, "Relative")
    \* CLC
      [] code = \h18 -> Instruction_new(code, 1, 2, "Implied")
    \* CLD
      [] code = \hD8 -> Instruction_new(code, 1, 2, "Implied")
    \* CLI
      [] code = \h58 -> Instruction_new(code, 1, 2, "Implied")
    \* CLV
      [] code = \hB8 -> Instruction_new(code, 1, 2, "Implied")
    \* CMP
      [] code = \hC9 -> Instruction_new(code, 2, 2, "Immediate")
      [] code = \hC5 -> Instruction_new(code, 2, 3, "ZeroPage")
      [] code = \hD5 -> Instruction_new(code, 2, 4, "ZeroPageX")
      [] code = \hCD -> Instruction_new(code, 3, 4, "Absolute")
      [] code = \hDD -> Instruction_new(code, 3, 4, "AbsoluteX")
      [] code = \hD9 -> Instruction_new(code, 3, 4, "AbsoluteY")
      [] code = \hC1 -> Instruction_new(code, 2, 6, "IndirectX")
      [] code = \hD1 -> Instruction_new(code, 2, 5, "IndirectY")
    \* CPX
      [] code = \hE0 -> Instruction_new(code, 2, 2, "Immediate")
      [] code = \hE4 -> Instruction_new(code, 2, 3, "ZeroPage")
      [] code = \hEC -> Instruction_new(code, 3, 4, "Absolute")
    \* CPY
      [] code = \hC0 -> Instruction_new(code, 2, 2, "Immediate")
      [] code = \hC4 -> Instruction_new(code, 2, 3, "ZeroPage")
      [] code = \hCC -> Instruction_new(code, 3, 4, "Absolute")
    \* DCP
      [] code = \hC7 -> Instruction_new(code, 2, 5, "ZeroPage")
      [] code = \hD7 -> Instruction_new(code, 2, 6, "ZeroPageX")
      [] code = \hCF -> Instruction_new(code, 3, 6, "Absolute")
      [] code = \hDF -> Instruction_new(code, 3, 7, "AbsoluteX")
      [] code = \hDB -> Instruction_new(code, 3, 7, "AbsoluteY")
      [] code = \hD3 -> Instruction_new(code, 2, 8, "IndirectY")
      [] code = \hC3 -> Instruction_new(code, 2, 8, "IndirectX")
    \* DEC
      [] code = \hC6 -> Instruction_new(code, 2, 5, "ZeroPage")
      [] code = \hD6 -> Instruction_new(code, 2, 6, "ZeroPageX")
      [] code = \hCE -> Instruction_new(code, 3, 6, "Absolute")
      [] code = \hDE -> Instruction_new(code, 3, 7, "AbsoluteX")
    \* DEX
      [] code = \hCA -> Instruction_new(code, 1, 2, "Implied")
    \* DEY
      [] code = \h88 -> Instruction_new(code, 1, 2, "Implied")
    \* EOR
      [] code = \h49 -> Instruction_new(code, 2, 2, "Immediate")
      [] code = \h45 -> Instruction_new(code, 2, 3, "ZeroPage")
      [] code = \h55 -> Instruction_new(code, 2, 4, "ZeroPageX")
      [] code = \h4D -> Instruction_new(code, 3, 4, "Absolute")
      [] code = \h5D -> Instruction_new(code, 3, 4, "AbsoluteX")
      [] code = \h59 -> Instruction_new(code, 3, 4, "AbsoluteY")
      [] code = \h41 -> Instruction_new(code, 2, 6, "IndirectX")
      [] code = \h51 -> Instruction_new(code, 2, 5, "IndirectY")
    \* INC
      [] code = \hE6 -> Instruction_new(code, 2, 5, "ZeroPage")
      [] code = \hF6 -> Instruction_new(code, 2, 6, "ZeroPageX")
      [] code = \hEE -> Instruction_new(code, 3, 6, "Absolute")
      [] code = \hFE -> Instruction_new(code, 3, 7, "AbsoluteX")
    \* INX
      [] code = \hE8 -> Instruction_new(code, 1, 2, "Implied")
    \* INY
      [] code = \hC8 -> Instruction_new(code, 1, 2, "Implied")
    \* ISC
      [] code = \hE7 -> Instruction_new(code, 2, 5, "ZeroPage")
      [] code = \hF7 -> Instruction_new(code, 2, 6, "ZeroPageX")
      [] code = \hEF -> Instruction_new(code, 3, 6, "Absolute")
      [] code = \hFF -> Instruction_new(code, 3, 7, "AbsoluteX")
      [] code = \hFB -> Instruction_new(code, 3, 7, "AbsoluteY")
      [] code = \hE3 -> Instruction_new(code, 2, 8, "IndirectX")
      [] code = \hF3 -> Instruction_new(code, 2, 8, "IndirectY")
    \* JMP
      [] code = \h4C -> Instruction_new(code, 3, 3, "Absolute")
      [] code = \h6C -> Instruction_new(code, 3, 5, "Indirect")
    \* JSR
      [] code = \h20 -> Instruction_new(code, 3, 6, "Absolute")
    \* KIL
      [] code = \h02 -> Instruction_new(code, 1, 2, "Implied")
      [] code = \h12 -> Instruction_new(code, 1, 2, "Implied")
      [] code = \h22 -> Instruction_new(code, 1, 2, "Implied")
      [] code = \h32 -> Instruction_new(code, 1, 2, "Implied")
      [] code = \h42 -> Instruction_new(code, 1, 2, "Implied")
      [] code = \h52 -> Instruction_new(code, 1, 2, "Implied")
      [] code = \h62 -> Instruction_new(code, 1, 2, "Implied")
      [] code = \h72 -> Instruction_new(code, 1, 2, "Implied")
      [] code = \h92 -> Instruction_new(code, 1, 2, "Implied")
      [] code = \hB2 -> Instruction_new(code, 1, 2, "Implied")
      [] code = \hD2 -> Instruction_new(code, 1, 2, "Implied")
      [] code = \hF2 -> Instruction_new(code, 1, 2, "Implied")
    \* LAS
      [] code = \hBB -> Instruction_new(code, 3, 2, "AbsoluteY")
    \* LAX - LDA + LDX
      [] code = \hA7 -> Instruction_new(code, 2, 3, "ZeroPage")
      [] code = \hB7 -> Instruction_new(code, 2, 4, "ZeroPageY")
      [] code = \hAF -> Instruction_new(code, 3, 4, "Absolute")
      [] code = \hBF -> Instruction_new(code, 3, 4, "AbsoluteY")
      [] code = \hA3 -> Instruction_new(code, 2, 6, "IndirectX")
      [] code = \hB3 -> Instruction_new(code, 2, 5, "IndirectY")
    \* LAX - LDA + TAX
      [] code = \hAB -> Instruction_new(code, 2, 3, "Immediate")
    \* LDA
      [] code = \hA9 -> Instruction_new(code, 2, 2, "Immediate")
      [] code = \hA5 -> Instruction_new(code, 2, 3, "ZeroPage")
      [] code = \hB5 -> Instruction_new(code, 2, 4, "ZeroPageX")
      [] code = \hAD -> Instruction_new(code, 3, 4, "Absolute")
      [] code = \hBD -> Instruction_new(code, 3, 4, "AbsoluteX")
      [] code = \hB9 -> Instruction_new(code, 3, 4, "AbsoluteY")
      [] code = \hA1 -> Instruction_new(code, 2, 6, "IndirectX")
      [] code = \hB1 -> Instruction_new(code, 2, 5, "IndirectY")
    \* LDX
      [] code = \hA2 -> Instruction_new(code, 2, 2, "Immediate")
      [] code = \hA6 -> Instruction_new(code, 2, 3, "ZeroPage")
      [] code = \hB6 -> Instruction_new(code, 2, 4, "ZeroPageY")
      [] code = \hAE -> Instruction_new(code, 3, 4, "Absolute")
      [] code = \hBE -> Instruction_new(code, 3, 4, "AbsoluteY")
    \* LDY
      [] code = \hA0 -> Instruction_new(code, 2, 2, "Immediate")
      [] code = \hA4 -> Instruction_new(code, 2, 3, "ZeroPage")
      [] code = \hB4 -> Instruction_new(code, 2, 4, "ZeroPageX")
      [] code = \hAC -> Instruction_new(code, 3, 4, "Absolute")
      [] code = \hBC -> Instruction_new(code, 3, 4, "AbsoluteX")
    \* LSR
      [] code = \h4A -> Instruction_new(code, 1, 2, "Accumulator")
      [] code = \h46 -> Instruction_new(code, 2, 5, "ZeroPage")
      [] code = \h56 -> Instruction_new(code, 2, 6, "ZeroPageX")
      [] code = \h4E -> Instruction_new(code, 3, 6, "Absolute")
      [] code = \h5E -> Instruction_new(code, 3, 7, "AbsoluteX")
    \* NOP
      [] code = \hEA -> Instruction_new(code, 1, 2, "Implied")
    \* NOP unofficial
      [] code = \h80 -> Instruction_new(code, 2, 2, "Immediate")
      [] code = \h82 -> Instruction_new(code, 2, 2, "Immediate")
      [] code = \h89 -> Instruction_new(code, 2, 2, "Immediate")
      [] code = \hC2 -> Instruction_new(code, 2, 2, "Immediate")
      [] code = \hE2 -> Instruction_new(code, 2, 2, "Immediate")
      [] code = \h04 -> Instruction_new(code, 2, 3, "ZeroPage")
      [] code = \h44 -> Instruction_new(code, 2, 3, "ZeroPage")
      [] code = \h64 -> Instruction_new(code, 2, 3, "ZeroPage")
      [] code = \h14 -> Instruction_new(code, 2, 4, "ZeroPageX")
      [] code = \h34 -> Instruction_new(code, 2, 4, "ZeroPageX")
      [] code = \h54 -> Instruction_new(code, 2, 4, "ZeroPageX")
      [] code = \h74 -> Instruction_new(code, 2, 4, "ZeroPageX")
      [] code = \hD4 -> Instruction_new(code, 2, 4, "ZeroPageX")
      [] code = \hF4 -> Instruction_new(code, 2, 4, "ZeroPageX")
      [] code = \h0C -> Instruction_new(code, 3, 4, "Absolute")
      [] code = \h1C -> Instruction_new(code, 3, 4, "AbsoluteX")
      [] code = \h3C -> Instruction_new(code, 3, 4, "AbsoluteX")
      [] code = \h5C -> Instruction_new(code, 3, 4, "AbsoluteX")
      [] code = \h7C -> Instruction_new(code, 3, 4, "AbsoluteX")
      [] code = \hDC -> Instruction_new(code, 3, 4, "AbsoluteX")
      [] code = \hFC -> Instruction_new(code, 3, 4, "AbsoluteX")
      [] code = \h1A -> Instruction_new(code, 1, 2, "Implied")
      [] code = \h3A -> Instruction_new(code, 1, 2, "Implied")
      [] code = \h5A -> Instruction_new(code, 1, 2, "Implied")
      [] code = \h7A -> Instruction_new(code, 1, 2, "Implied")
      [] code = \hDA -> Instruction_new(code, 1, 2, "Implied")
      [] code = \hFA -> Instruction_new(code, 1, 2, "Implied")
    \* ORA
      [] code = \h09 -> Instruction_new(code, 2, 2, "Immediate")
      [] code = \h05 -> Instruction_new(code, 2, 3, "ZeroPage")
      [] code = \h15 -> Instruction_new(code, 2, 4, "ZeroPageX")
      [] code = \h0D -> Instruction_new(code, 3, 4, "Absolute")
      [] code = \h1D -> Instruction_new(code, 3, 4, "AbsoluteX")
      [] code = \h19 -> Instruction_new(code, 3, 4, "AbsoluteY")
      [] code = \h01 -> Instruction_new(code, 2, 6, "IndirectX")
      [] code = \h11 -> Instruction_new(code, 2, 5, "IndirectY")
    \* PHA
      [] code = \h48 -> Instruction_new(code, 1, 3, "Implied")
    \* PHP
      [] code = \h08 -> Instruction_new(code, 1, 3, "Implied")
    \* PLA
      [] code = \h68 -> Instruction_new(code, 1, 4, "Implied")
    \* PLP
      [] code = \h28 -> Instruction_new(code, 1, 4, "Implied")
    \* RLA
      [] code = \h27 -> Instruction_new(code, 2, 5, "ZeroPage")
      [] code = \h37 -> Instruction_new(code, 2, 6, "ZeroPageX")
      [] code = \h2F -> Instruction_new(code, 3, 6, "Absolute")
      [] code = \h3F -> Instruction_new(code, 3, 7, "AbsoluteX")
      [] code = \h3B -> Instruction_new(code, 3, 7, "AbsoluteY")
      [] code = \h33 -> Instruction_new(code, 2, 8, "IndirectY")
      [] code = \h23 -> Instruction_new(code, 2, 8, "IndirectX")
    \* ROL
      [] code = \h2A -> Instruction_new(code, 1, 2, "Accumulator")
      [] code = \h26 -> Instruction_new(code, 2, 5, "ZeroPage")
      [] code = \h36 -> Instruction_new(code, 2, 6, "ZeroPageX")
      [] code = \h2E -> Instruction_new(code, 3, 6, "Absolute")
      [] code = \h3E -> Instruction_new(code, 3, 7, "AbsoluteX")
    \* ROR
      [] code = \h6A -> Instruction_new(code, 1, 2, "Accumulator")
      [] code = \h66 -> Instruction_new(code, 2, 5, "ZeroPage")
      [] code = \h76 -> Instruction_new(code, 2, 6, "ZeroPageX")
      [] code = \h6E -> Instruction_new(code, 3, 6, "Absolute")
      [] code = \h7E -> Instruction_new(code, 3, 7, "AbsoluteX")
    \* RRA
      [] code = \h67 -> Instruction_new(code, 2, 5, "ZeroPage")
      [] code = \h77 -> Instruction_new(code, 2, 6, "ZeroPageX")
      [] code = \h6F -> Instruction_new(code, 3, 6, "Absolute")
      [] code = \h7F -> Instruction_new(code, 3, 7, "AbsoluteX")
      [] code = \h7B -> Instruction_new(code, 3, 7, "AbsoluteY")
      [] code = \h63 -> Instruction_new(code, 2, 8, "IndirectX")
      [] code = \h73 -> Instruction_new(code, 2, 8, "IndirectY")
    \* RTI
      [] code = \h40 -> Instruction_new(code, 1, 6, "Implied")
    \* RTS
      [] code = \h60 -> Instruction_new(code, 1, 6, "Implied")
    \* SAX
      [] code = \h87 -> Instruction_new(code, 2, 3, "ZeroPage")
      [] code = \h97 -> Instruction_new(code, 2, 4, "ZeroPageY")
      [] code = \h8F -> Instruction_new(code, 3, 4, "Absolute")
      [] code = \h83 -> Instruction_new(code, 2, 6, "IndirectX")
    \* SBC
      [] code = \hE9 -> Instruction_new(code, 2, 2, "Immediate")
      [] code = \hE5 -> Instruction_new(code, 2, 3, "ZeroPage")
      [] code = \hF5 -> Instruction_new(code, 2, 4, "ZeroPageX")
      [] code = \hED -> Instruction_new(code, 3, 4, "Absolute")
      [] code = \hFD -> Instruction_new(code, 3, 4, "AbsoluteX")
      [] code = \hF9 -> Instruction_new(code, 3, 4, "AbsoluteY")
      [] code = \hE1 -> Instruction_new(code, 2, 6, "IndirectX")
      [] code = \hF1 -> Instruction_new(code, 2, 5, "IndirectY")
    \* SBC unofficial
      [] code = \hEB -> Instruction_new(code, 2, 2, "Immediate")
    \* SEC
      [] code = \h38 -> Instruction_new(code, 1, 2, "Implied")
    \* SED
      [] code = \hF8 -> Instruction_new(code, 1, 2, "Implied")
    \* SEI
      [] code = \h78 -> Instruction_new(code, 1, 2, "Implied")
    \* SHX
      [] code = \h9E -> Instruction_new(code, 3, 4, "AbsoluteY")
    \* SHY
      [] code = \h9C -> Instruction_new(code, 3, 4, "AbsoluteX")
    \* SLO
      [] code = \h07 -> Instruction_new(code, 2, 5, "ZeroPage")
      [] code = \h17 -> Instruction_new(code, 2, 6, "ZeroPageX")
      [] code = \h0F -> Instruction_new(code, 3, 6, "Absolute")
      [] code = \h1F -> Instruction_new(code, 3, 7, "AbsoluteX")
      [] code = \h1B -> Instruction_new(code, 3, 7, "AbsoluteY")
      [] code = \h03 -> Instruction_new(code, 2, 8, "IndirectX")
      [] code = \h13 -> Instruction_new(code, 2, 8, "IndirectY")
    \* SRE
      [] code = \h47 -> Instruction_new(code, 2, 5, "ZeroPage")
      [] code = \h57 -> Instruction_new(code, 2, 6, "ZeroPageX")
      [] code = \h4F -> Instruction_new(code, 3, 6, "Absolute")
      [] code = \h5F -> Instruction_new(code, 3, 7, "AbsoluteX")
      [] code = \h5B -> Instruction_new(code, 3, 7, "AbsoluteY")
      [] code = \h43 -> Instruction_new(code, 2, 8, "IndirectX")
      [] code = \h53 -> Instruction_new(code, 2, 8, "IndirectY")
    \* STA
      [] code = \h85 -> Instruction_new(code, 2, 3, "ZeroPage")
      [] code = \h95 -> Instruction_new(code, 2, 4, "ZeroPageX")
      [] code = \h8D -> Instruction_new(code, 3, 4, "Absolute")
      [] code = \h9D -> Instruction_new(code, 3, 5, "AbsoluteX")
      [] code = \h99 -> Instruction_new(code, 3, 5, "AbsoluteY")
      [] code = \h81 -> Instruction_new(code, 2, 6, "IndirectX")
      [] code = \h91 -> Instruction_new(code, 2, 6, "IndirectY")
    \* STX
      [] code = \h86 -> Instruction_new(code, 2, 3, "ZeroPage")
      [] code = \h96 -> Instruction_new(code, 2, 4, "ZeroPageX")
      [] code = \h8E -> Instruction_new(code, 3, 4, "Absolute")
    \* STY
      [] code = \h84 -> Instruction_new(code, 2, 3, "ZeroPage")
      [] code = \h94 -> Instruction_new(code, 2, 4, "ZeroPageX")
      [] code = \h8C -> Instruction_new(code, 3, 4, "Absolute")
    \* TAS
      [] code = \h9B -> Instruction_new(code, 3, 2, "AbsoluteY")
    \* TAX
      [] code = \hAA -> Instruction_new(code, 1, 2, "Implied")
    \* TAY
      [] code = \hA8 -> Instruction_new(code, 1, 2, "Implied")
    \* TSX
      [] code = \hBA -> Instruction_new(code, 1, 2, "Implied")
    \* TXA
      [] code = \h8A -> Instruction_new(code, 1, 2, "Implied")
    \* TXS
      [] code = \h9A -> Instruction_new(code, 1, 2, "Implied")
    \* TYA
      [] code = \h98 -> Instruction_new(code, 1, 2, "Implied")
    \* XAA
      [] code = \h8B -> Instruction_new(code, 2, 3, "Immediate")
      [] OTHER -> unimplemented("That code unimplemented")

(***************************************************************************)
(* struct CPU and its methods, as functions from a CPU value to the CPU    *)
(* value the method leaves behind.                                         *)
(***************************************************************************)
CPU_new ==
    [program_counter |-> 0, stack_pointer |-> 0, accumulator |-> 0,
     register_x |-> 0, register_y |-> 0, status |-> ONE]

set_carry_flag(self, value) ==
    [self EXCEPT !.status = set(@, CARRY, value)]

\* update_zero_flag that sets Zero and never clears it.
update_zero_flag_sticky(self, value) ==
    [self EXCEPT !.status = IF value = 0 THEN insert(@, ZERO) ELSE @]

update_zero_flag(self, value) ==
    [self EXCEPT !.status = set(@, ZERO, value = 0)]

set_decimal_mode_flag(self, value) ==
    [self EXCEPT !.status = set(@, DECIMAL_MODE, value)]

\* update_negative_flag that tests bit 6 of the value.
update_negative_flag_bit6(self, value) ==
    [self EXCEPT !.status = set(@, NEGATIVE, BitAnd(value, \b01000000) # 0)]

update_negative_flag(self, value) ==
    [self EXCEPT !.status = set(@, NEGATIVE, BitAnd(value, \b10000000) # 0)]

set_accumulator(self, value) ==
    LET s1 == [self EXCEPT !.accumulator = value]
        s2 == update_zero_flag(s1, s1.accumulator)
    IN  update_negative_flag(s2, s2.accumulator)

CARRY_MASK == 256
OVERFLOW_MASK == 128

\* add_to_accumulator without the incoming Carry.
add_to_accumulator_no_carry_in(self, value) ==
    LET sum == (self.accumulator + value) % U16
        s1 == [self EXCEPT !.status = set(@, CARRY, BitAnd(sum, CARRY_MASK) # 0)]
        s2 == [s1 EXCEPT !.status = set(@, OVERFLOW, BitAnd(sum, OVERFLOW_MASK) # 0)]
    IN  set_accumulator(s2, sum % 256)

\* add_to_accumulator with Overflow as the signed overflow of the addition.
add_to_accumulator_signed(self, value) ==
    LET carry == IF contains(self.status, CARRY) THEN 1 ELSE 0
        sum == (self.accumulator + value + carry) % U16
        result == sum % 256
        signed == /\ (self.accumulator >= 128) = (value >= 128)
                  /\ (result >= 128) # (value >= 128)
        s1 == [self EXCEPT !.status = set(@, CARRY, BitAnd(sum, CARRY_MASK) # 0)]
        s2 == [s1 EXCEPT !.status = set(@, OVERFLOW, signed)]
    IN  set_accumulator(s2, result)

\* add_to_accumulator with the decimal adjustment of the low digit when
\* DecimalMode is set.
add_to_accumulator_bcd(self, value) ==
    LET carry == IF contains(self.status, CARRY) THEN 1 ELSE 0
        low == (self.accumulator % 16) + (value % 16) + carry
        adjust == IF contains(self.status, DECIMAL_MODE) /\ low > 9 THEN 6 ELSE 0
        sum == (self.accumulator + value + carry + adjust) % U16
        s1 == [self EXCEPT !.status = set(@, CARRY, BitAnd(sum, CARRY_MASK) # 0)]
        s2 == [s1 EXCEPT !.status = set(@, OVERFLOW, BitAnd(sum, OVERFLOW_MASK) # 0)]
    IN  set_accumulator(s2, sum % 256)

add_to_accumulator(self, value) ==
    LET carry == IF contains(self.status, CARRY) THEN 1 ELSE 0
        sum == (self.accumulator + value + carry) % U16
        s1 == [self EXCEPT !.status = set(@, CARRY, BitAnd(sum, CARRY_MASK) # 0)]
        s2 == [s1 EXCEPT !.status = set(@, OVERFLOW, BitAnd(sum, OVERFLOW_MASK) # 0)]
    IN  set_accumulator(s2, sum % 256)

adc(self, value) == add_to_accumulator(self, value)

lda(self, value) == set_accumulator(self, value)

\* tax that writes register_y in place of register_x.
tax_to_y(self) ==
    LET s1 == [self EXCEPT !.register_y = self.accumulator]
        s2 == update_zero_flag(s1, s1.register_y)
    IN  update_negative_flag(s2, s2.register_y)

\* tax that leaves the flags as they were.
tax_no_flags(self) == [self EXCEPT !.register_x = self.accumulator]

tax(self) ==
    LET s1 == [self EXCEPT !.register_x = self.accumulator]
        s2 == update_zero_flag(s1, s1.register_x)
    IN  update_negative_flag(s2, s2.register_x)

(***************************************************************************)
(* Bounds of the model.                                                    *)
(***************************************************************************)
\* The work one CPU is given: one unit for each direct call of lda, adc or
\* tax and one for each byte handed to execute_commands.
MaxWork == 4

\* The bytes programs are made of: the three dispatched opcodes ADC #imm
\* (0x69), LDA #imm (0xA9) and TAX (0xAA), BRK (0x00) and KIL (0x02), which
\* have no handler, and the operands 0x81 and 0xFF; each is also an operand.
ProgramBytes == {\h00, \h02, \h69, \h81, \hA9, \hAA, \hFF}

\* Operands of the direct calls.
Operands == {\h00, \h81, \hFF}

RECURSIVE SeqsOfLen(_, _)
SeqsOfLen(S, n) ==
    IF n = 0 THEN {<<>>}
    ELSE {Append(s, b) : s \in SeqsOfLen(S, n - 1), b \in S}

\* The programs of at most n bytes, for every n the bound allows.
Programs == [n \in 0 .. MaxWork |-> UNION {SeqsOfLen(ProgramBytes, k) : k \in 0 .. n}]

(***************************************************************************)
(* State.                                                                  *)
(***************************************************************************)
VARIABLES
    cpu,          \* the CPU value
    commands,     \* the argument of the current (or last) execute_commands
    entry,        \* the CPU value when that execute_commands was entered
    mode,         \* "idle", "running", "returned", "done" or "panicked"
    panic,        \* the panic message once mode = "panicked"
    call,         \* the last method run on the CPU: its name, argument and
                  \* the CPU value it was called on
    work,         \* direct calls made and bytes handed over so far
    code,         \* the argument of the last Instruction::from_code
    instruction   \* what it returned

vars == <<cpu, commands, entry, mode, panic, call, work, code, instruction>>

NoCall == [op |-> "new", value |-> 0, self |-> CPU_new]
NoInstruction == [none |-> TRUE]

Init ==
    /\ cpu = CPU_new
    /\ commands = <<>>
    /\ entry = CPU_new
    /\ mode = "idle"
    /\ panic = ""
    /\ call = NoCall
    /\ work = 0
    /\ code = 0
    /\ instruction = NoInstruction

(***************************************************************************)
(* Instruction::from_code applied to every byte.                           *)
(***************************************************************************)
Decode(c) ==
    /\ code' = c
    /\ instruction' = from_code(c)
    /\ UNCHANGED <<cpu, commands, entry, mode, panic, call, work>>

NextTable == \E c \in Byte : Decode(c)

SpecTable == Init /\ [][NextTable]_vars

(***************************************************************************)
(* lda, adc and tax applied once to a CPU value.                           *)
(***************************************************************************)
\* The CPU values the methods are applied to: the new CPU, and the CPU after
\* lda(a) with Carry and DecimalMode as given.
Prepared(a, c, d) ==
    set_decimal_mode_flag(set_carry_flag(lda(CPU_new, a), c), d)

InitAlu ==
    /\ \/ cpu = CPU_new
       \/ \E a \in Byte, c \in BOOLEAN, d \in BOOLEAN : cpu = Prepared(a, c, d)
    /\ commands = <<>>
    /\ entry = CPU_new
    /\ mode = "idle"
    /\ panic = ""
    /\ call = NoCall
    /\ work = 0
    /\ code = 0
    /\ instruction = NoInstruction

AluAdc(v) ==
    /\ mode = "idle"
    /\ cpu' = adc(cpu, v)
    /\ call' = [op |-> "adc", value |-> v, self |-> cpu]
    /\ mode' = "done"
    /\ UNCHANGED <<commands, entry, panic, work, code, instruction>>

AluLda(v) ==
    /\ mode = "idle"
    /\ cpu' = lda(cpu, v)
    /\ call' = [op |-> "lda", value |-> v, self |-> cpu]
    /\ mode' = "done"
    /\ UNCHANGED <<commands, entry, panic, work, code, instruction>>

AluTax ==
    /\ mode = "idle"
    /\ cpu' = tax(cpu)
    /\ call' = [op |-> "tax", value |-> 0, self |-> cpu]
    /\ mode' = "done"
    /\ UNCHANGED <<commands, entry, panic, work, code, instruction>>

NextAlu ==
    \/ mode = "idle" /\ \E v \in Byte : AluAdc(v)
    \/ mode = "idle" /\ \E v \in Byte : AluLda(v)
    \/ AluTax

SpecAlu == InitAlu /\ [][NextAlu]_vars

(***************************************************************************)
(* One CPU, from CPU::new on: direct calls of lda, adc and tax, and        *)
(* execute_commands, one action per turn of its loop.                      *)
(***************************************************************************)
Callable == mode \in {"idle", "returned"}

Lda(v) ==
    /\ Callable
    /\ work < MaxWork
    /\ cpu' = lda(cpu, v)
    /\ call' = [op |-> "lda", value |-> v, self |-> cpu]
    /\ mode' = "idle"
    /\ work' = work + 1
    /\ UNCHANGED <<commands, entry, panic, code, instruction>>

Adc(v) ==
    /\ Callable
    /\ work < MaxWork
    /\ cpu' = adc(cpu, v)
    /\ call' = [op |-> "adc", value |-> v, self |-> cpu]
    /\ mode' = "idle"
    /\ work' = work + 1
    /\ UNCHANGED <<commands, entry, panic, code, instruction>>

Tax ==
    /\ Callable
    /\ work < MaxWork
    /\ cpu' = tax(cpu)
    /\ call' = [op |-> "tax", value |-> 0, self |-> cpu]
    /\ mode' = "idle"
    /\ work' = work + 1
    /\ UNCHANGED <<commands, entry, panic, code, instruction>>

\* execute_commands(commands) is entered.
ExecuteCommands(cmds) ==
    /\ Callable
    /\ work + Len(cmds) <= MaxWork
    /\ commands' = cmds
    /\ entry' = cpu
    /\ mode' = "running"
    /\ work' = work + Len(cmds)
    /\ UNCHANGED <<cpu, panic, call, code, instruction>>

\* commands[i] on a Vec: the index of the byte, from 0.
At(i) == commands[i + 1]
InBounds(i) == i < Len(commands)

\* self.program_counter += 1 on a u16. The counter stays at or below the
\* length of commands, so the addition overflows only past 65535 bytes.
Advance(self) ==
    [self EXCEPT !.program_counter = (@ + 1) % U16]

\* The loop's exit: the program counter is at or past the end.
Return ==
    /\ mode = "running"
    /\ cpu.program_counter >= Len(commands)
    /\ mode' = "returned"
    /\ UNCHANGED <<cpu, commands, entry, panic, call, work, code, instruction>>

\* The command the loop fetches, and the CPU once the counter is past it.
Fetching == mode = "running" /\ cpu.program_counter < Len(commands)
command == At(cpu.program_counter)
fetched == Advance(cpu)

\* 0x69 => adc(commands[program_counter]); program_counter += 1
StepAdc ==
    /\ Fetching
    /\ command = \h69
    /\ InBounds(fetched.program_counter)
    /\ cpu' = Advance(adc(fetched, At(fetched.program_counter)))
    /\ call' = [op |-> "adc", value |-> At(fetched.program_counter), self |-> fetched]
    /\ UNCHANGED <<commands, entry, mode, panic, work, code, instruction>>

\* The 0xA9 arm without the program_counter += 1 after the operand.
StepLda_no_advance ==
    /\ Fetching
    /\ command = \hA9
    /\ InBounds(fetched.program_counter)
    /\ cpu' = lda(fetched, At(fetched.program_counter))
    /\ call' = [op |-> "lda", value |-> At(fetched.program_counter), self |-> fetched]
    /\ UNCHANGED <<commands, entry, mode, panic, work, code, instruction>>

\* 0xA9 => lda(commands[program_counter]); program_counter += 1
StepLda ==
    /\ Fetching
    /\ command = \hA9
    /\ InBounds(fetched.program_counter)
    /\ cpu' = Advance(lda(fetched, At(fetched.program_counter)))
    /\ call' = [op |-> "lda", value |-> At(fetched.program_counter), self |-> fetched]
    /\ UNCHANGED <<commands, entry, mode, panic, work, code, instruction>>

\* 0xAA => tax()
StepTax ==
    /\ Fetching
    /\ command = \hAA
    /\ cpu' = tax(fetched)
    /\ call' = [op |-> "tax", value |-> 0, self |-> fetched]
    /\ UNCHANGED <<commands, entry, mode, panic, work, code, instruction>>

\* 0x69 and 0xA9 with no byte after the opcode: the index panics.
StepIndexPanic ==
    /\ Fetching
    /\ command \in {\h69, \hA9}
    /\ ~InBounds(fetched.program_counter)
    /\ cpu' = fetched
    /\ mode' = "panicked"
    /\ panic' = "index out of bounds"
    /\ UNCHANGED <<commands, entry, call, work, code, instruction>>

\* _ => unimplemented!("That opcode unimplemented")
StepUnimplemented ==
    /\ Fetching
    /\ command \notin {\h69, \hA9, \hAA}
    /\ cpu' = fetched
    /\ mode' = "panicked"
    /\ panic' = "That opcode unimplemented"
    /\ UNCHANGED <<commands, entry, call, work, code, instruction>>

Next ==
    \/ \E v \in Operands : Lda(v)
    \/ \E v \in Operands : Adc(v)
    \/ Tax
    \/ Callable /\ \E cmds \in Programs[MaxWork - work] : ExecuteCommands(cmds)
    \/ Return
    \/ StepAdc
    \/ StepLda
    \/ StepTax
    \/ StepIndexPanic
    \/ StepUnimplemented

Spec == Init /\ [][Next]_vars

\* A turn of the loop of execute_commands. The loop is straight-line code on
\* one thread: once entered it keeps taking turns until it returns or panics.
Loop ==
    \/ Return
    \/ StepAdc
    \/ StepLda
    \/ StepTax
    \/ StepIndexPanic
    \/ StepUnimplemented

\* The CPU that is only given execute_commands calls.
NextExecute ==
    \/ Callable /\ \E cmds \in Programs[MaxWork - work] : ExecuteCommands(cmds)
    \/ Loop

SpecFair == Init /\ [][NextExecute]_vars /\ WF_vars(Loop)

(***************************************************************************)
(* Properties.                                                             *)
(***************************************************************************)
Decoded == instruction # NoInstruction
Called(op) == call.op = op
CarryIn == IF contains(call.self.status, CARRY) THEN 1 ELSE 0
Bit7(value) == value >= 128

\* C1: Instruction::from_code is total over the byte range: for every opcode
\* 0..=255 it returns a descriptor whose opcode field is the input, and the
\* fallback arm that aborts with "unimplemented" is never reached.
C1_FromCodeTotal ==
    Decoded =>
        /\ instruction # unimplemented("That code unimplemented")
        /\ DOMAIN instruction = {"opcode", "len", "cycle", "addressing_mode"}
        /\ instruction.opcode = code

C1_Witness ==
    /\ Decoded
    /\ code = \hFF
    /\ instruction.opcode = \hFF
    /\ instruction.addressing_mode = "AbsoluteX"
(***************************************************************************)
(* The reference table of the 6502 (documented and undocumented opcodes),  *)
(* by the opcode's bit fields aaa bbb cc: the addressing mode and the base *)
(* cycle count, which the KIL opcodes do not have (NoCycle).               *)
(***************************************************************************)
NoCycle == 0 - 1
RefModes ==
    <<"IndirectX", "ZeroPage", "Immediate", "Absolute",
      "IndirectY", "ZeroPageX", "AbsoluteY", "AbsoluteX">>
\* Stores indexed through a 16-bit address take the page-crossing cycle always.
RefStore(a, b) == IF a = 4 /\ b \in {4, 6, 7} THEN 1 ELSE 0
\* The X-indexed modes of the columns that index by Y in the STX/LDX rows.
RefByY(b) ==
    IF b = 5 THEN "ZeroPageY" ELSE IF b = 7 THEN "AbsoluteY" ELSE RefModes[b + 1]

Reference(c) ==
    LET a == c \div 32
        b == (c \div 4) % 8
        cc == c % 4
        read == <<6, 3, 2, 4, 5, 4, 4, 4>>
        modify == <<8, 5, 2, 6, 8, 6, 7, 7>>
    IN  CASE cc = 1 ->
               IF c = \h89 THEN <<"Immediate", 2>>
               ELSE <<RefModes[b + 1], read[b + 1] + RefStore(a, b)>>
          [] cc = 3 ->
               IF b = 2 THEN <<"Immediate", 2>>
               ELSE IF a \in {4, 5} THEN <<RefByY(b), read[b + 1] + RefStore(a, b)>>
               ELSE <<RefModes[b + 1], modify[b + 1]>>
          [] cc = 2 ->
               IF b = 0 THEN (IF a >= 4 THEN <<"Immediate", 2>> ELSE <<"Implied", NoCycle>>)
               ELSE IF b = 4 THEN <<"Implied", NoCycle>>
               ELSE IF b = 2 THEN (IF a < 4 THEN <<"Accumulator", 2>> ELSE <<"Implied", 2>>)
               ELSE IF b = 6 THEN <<"Implied", 2>>
               ELSE IF a \in {4, 5} THEN <<RefByY(b), read[b + 1] + RefStore(a, b)>>
               ELSE <<RefModes[b + 1], modify[b + 1]>>
          [] OTHER ->
               IF b = 0 THEN
                   (IF a = 0 THEN <<"Implied", 7>>
                    ELSE IF a = 1 THEN <<"Absolute", 6>>
                    ELSE IF a \in {2, 3} THEN <<"Implied", 6>>
                    ELSE <<"Immediate", 2>>)
               ELSE IF b = 1 THEN <<"ZeroPage", 3>>
               ELSE IF b = 2 THEN <<"Implied", <<3, 4, 3, 4, 2, 2, 2, 2>>[a + 1]>>
               ELSE IF b = 3 THEN
                   (IF c = \h4C THEN <<"Absolute", 3>>
                    ELSE IF c = \h6C THEN <<"Indirect", 5>>
                    ELSE <<"Absolute", 4>>)
               ELSE IF b = 4 THEN <<"Relative", 2>>
               ELSE IF b = 5 THEN <<"ZeroPageX", 4>>
               ELSE IF b = 6 THEN <<"Implied", 2>>
               ELSE <<"AbsoluteX", IF c = \h9C THEN 5 ELSE 4>>

\* The instruction's length in bytes, by addressing mode.
RefLen(m) ==
    IF m \in {"Implied", "Accumulator"} THEN 1
    ELSE IF m \in {"Absolute", "AbsoluteX", "AbsoluteY", "Indirect"} THEN 3
    ELSE 2

MatchesReference(i, c) ==
    /\ i.addressing_mode = Reference(c)[1]
    /\ i.len = RefLen(Reference(c)[1])
    /\ Reference(c)[2] # NoCycle => i.cycle = Reference(c)[2]

\* C2: for every opcode 0..=255 the descriptor from_code returns has the
\* addressing mode, the operand length and the base cycle cost of the
\* reference table for that opcode: among them STX 0x96 and LDX 0xB6 are zero
\* page indexed by Y, LAS 0xBB costs 4 cycles and TAS 0x9B costs 5.
C2_MatchesReference ==
    Decoded => MatchesReference(instruction, code)

\* C3: after adc(v) on accumulator a with incoming Carry c, the accumulator
\* is (a + v + c) mod 256 and Carry is set exactly when a + v + c > 0xFF.
C3_AdcSumCarry ==
    Called("adc") =>
        LET sum == call.self.accumulator + call.value + CarryIn
        IN  /\ cpu.accumulator = sum % 256
            /\ contains(cpu.status, CARRY) <=> sum > \hFF

\* 20 + 40 with Carry set gives 61, Carry clear; 128 + 128 gives 0, Carry set.
C3_Witness ==
    /\ Called("adc")
    /\ call.self.accumulator = 20
    /\ call.value = 40
    /\ CarryIn = 1
    /\ cpu.accumulator = 61
    /\ ~contains(cpu.status, CARRY)

\* C4: after adc(v) Overflow is set exactly when the accumulator and the
\* operand have the same sign bit and the 8-bit result has the other one.
C4_AdcSignedOverflow ==
    Called("adc") =>
        (contains(cpu.status, OVERFLOW) <=>
            /\ Bit7(call.self.accumulator) = Bit7(call.value)
            /\ Bit7(cpu.accumulator) # Bit7(call.value))

TestAdcOverflow == <<\hA9, 255, \h69, 129>>

\* C5: from a new CPU, execute_commands([0xA9, 255, 0x69, 129]) does not
\* panic and returns with accumulator 128 and Overflow set.
C5_TestAdcOverflow ==
    (entry = CPU_new /\ commands = TestAdcOverflow) =>
        /\ mode # "panicked"
        /\ mode = "returned" =>
              /\ cpu.accumulator = 128
              /\ contains(cpu.status, OVERFLOW)

C5_Witness ==
    /\ entry = CPU_new
    /\ commands = TestAdcOverflow
    /\ mode = "returned"
    /\ cpu.program_counter = 4
    /\ cpu.accumulator = 128
    /\ contains(cpu.status, OVERFLOW)

\* C6: lda(v) leaves accumulator = v, Zero set exactly when v = 0 and
\* Negative set exactly when bit 7 of v is 1, whatever the flags were.
C6_Lda ==
    Called("lda") =>
        /\ cpu.accumulator = call.value
        /\ contains(cpu.status, ZERO) <=> call.value = 0
        /\ contains(cpu.status, NEGATIVE) <=> Bit7(call.value)

\* lda(0x85) on a CPU whose Zero flag was set.
C6_Witness ==
    /\ Called("lda")
    /\ contains(call.self.status, ZERO)
    /\ call.value = \h85
    /\ cpu.accumulator = \h85
    /\ contains(cpu.status, NEGATIVE)
    /\ ~contains(cpu.status, ZERO)

\* C7: tax() leaves register_x = accumulator with the accumulator unchanged,
\* Zero set exactly when it is 0 and Negative exactly when its bit 7 is 1.
C7_Tax ==
    Called("tax") =>
        /\ cpu.register_x = call.self.accumulator
        /\ cpu.accumulator = call.self.accumulator
        /\ contains(cpu.status, ZERO) <=> call.self.accumulator = 0
        /\ contains(cpu.status, NEGATIVE) <=> Bit7(call.self.accumulator)

\* tax() with 0x85 in the accumulator.
C7_Witness ==
    /\ Called("tax")
    /\ call.self.accumulator = \h85
    /\ cpu.register_x = \h85
    /\ cpu.accumulator = \h85
    /\ contains(cpu.status, NEGATIVE)

\* C8: the constant status bit CpuFlags::ONE is set in every state: CPU::new
\* sets it and no lda, adc, tax or execute_commands clears it.
C8_OneBit == contains(cpu.status, ONE)

\* execute_commands has returned after an adc that set and cleared flags.
C8_Witness ==
    /\ mode = "returned"
    /\ Called("adc")
    /\ contains(call.self.status, NEGATIVE)
    /\ ~contains(cpu.status, NEGATIVE)
    /\ contains(cpu.status, CARRY)
    /\ contains(cpu.status, ONE)

\* The CPU value with DecimalMode the other way.
OtherDecimalMode(self) ==
    set_decimal_mode_flag(self, ~contains(self.status, DECIMAL_MODE))

\* C9: adc(v) on two CPU values that differ only in DecimalMode gives the
\* same accumulator and the same Carry, Zero, Overflow and Negative, and
\* leaves DecimalMode as it was in each.
C9_AdcIgnoresDecimalMode ==
    Called("adc") =>
        LET twin == adc(OtherDecimalMode(call.self), call.value)
        IN  /\ twin.accumulator = cpu.accumulator
            /\ \A f \in {CARRY, ZERO, OVERFLOW, NEGATIVE} :
                  contains(twin.status, f) <=> contains(cpu.status, f)
            /\ contains(cpu.status, DECIMAL_MODE) <=>
                  contains(call.self.status, DECIMAL_MODE)
            /\ contains(twin.status, DECIMAL_MODE) <=>
                  ~contains(call.self.status, DECIMAL_MODE)

\* 0x09 + 0x01 with DecimalMode set is 0x0A, not the decimal 0x10.
C9_Witness ==
    /\ Called("adc")
    /\ contains(call.self.status, DECIMAL_MODE)
    /\ call.self.accumulator = \h09
    /\ call.value = \h01
    /\ CarryIn = 0
    /\ cpu.accumulator = \h0A
    /\ contains(cpu.status, DECIMAL_MODE)

\* C10: execute_commands never aborts: an opcode without a handler and an
\* instruction whose operand lies past the end of the sequence are reported
\* as a recoverable failure, not a panic.
C10_NeverAborts == mode # "panicked"
\* The KIL opcodes of the instruction table.
KilOpcodes ==
    {\h02, \h12, \h22, \h32, \h42, \h52, \h62, \h72, \h92, \hB2, \hD2, \hF2}

\* The opcode whose execution panicked: the byte before the program counter.
AbortedOn == commands[cpu.program_counter]

\* C11: executing a KIL opcode halts the engine in a state that differs from
\* the unimplemented-opcode condition, and no instruction runs after it
\* until the CPU is reset.
C11_KilHalts ==
    (mode = "panicked" /\ cpu.program_counter > 0 /\ AbortedOn \in KilOpcodes) =>
        panic # "That opcode unimplemented"
\* One instruction of execute_commands runs.
Dispatch == StepAdc \/ StepLda \/ StepTax

\* C12: an instruction execute_commands dispatches (0x69, 0xA9, 0xAA) moves
\* program_counter on by the len of Instruction::from_code(opcode), and the
\* operand it consumes is the byte right after the opcode.
C12_AdvancesByLen ==
    [][Dispatch =>
          LET len == from_code(command).len
          IN  /\ cpu'.program_counter = cpu.program_counter + len
              /\ len = 2 => call'.value = At(cpu.program_counter + 1)
              /\ len \in {1, 2}]_vars

\* [0xA9, 0x81, 0xAA] on a new CPU, after its lda: two bytes on, 0x81 loaded.
C12_Witness ==
    /\ mode = "running"
    /\ entry = CPU_new
    /\ commands = <<\hA9, \h81, \hAA>>
    /\ Called("lda")
    /\ call.value = \h81
    /\ cpu.program_counter = from_code(\hA9).len
    /\ cpu.accumulator = \h81
\* p, from byte i on, is a concatenation of complete instructions
\* [0x69, v], [0xA9, v] and [0xAA].
RECURSIVE Complete(_, _)
Complete(p, i) ==
    IF i >= Len(p) THEN TRUE
    ELSE IF p[i + 1] \in {\h69, \hA9} THEN i + 1 < Len(p) /\ Complete(p, i + 2)
    ELSE p[i + 1] = \hAA /\ Complete(p, i + 1)

\* The registers and flags after each instruction of p, from byte i on, has
\* run once, in address order.
RECURSIVE EachOnce(_, _, _)
EachOnce(self, p, i) ==
    IF i >= Len(p) THEN self
    ELSE IF p[i + 1] = \h69 THEN EachOnce(adc(self, p[i + 2]), p, i + 2)
    ELSE IF p[i + 1] = \hA9 THEN EachOnce(lda(self, p[i + 2]), p, i + 2)
    ELSE EachOnce(tax(self), p, i + 1)

\* An execute_commands is running or over (a later direct call ends this).
InExecute == mode \in {"running", "returned", "panicked"}
CompleteFromZero ==
    InExecute /\ entry.program_counter = 0 /\ Complete(commands, 0)
PastTheEnd == InExecute /\ entry.program_counter >= Len(commands)

\* C13: entered with program_counter = 0 on a concatenation of complete
\* instructions, execute_commands terminates, having run each instruction
\* once in address order, with program_counter at the length of the
\* sequence; entered with program_counter at or past the end, it returns at
\* once and leaves the CPU as it was.
C13_Terminates ==
    /\ [](CompleteFromZero =>
            /\ mode # "panicked"
            /\ cpu.program_counter <= Len(commands)
            /\ mode = "returned" =>
                  cpu = [EachOnce(entry, commands, 0)
                            EXCEPT !.program_counter = Len(commands)])
    /\ [](PastTheEnd => mode # "panicked" /\ cpu = entry)
    /\ (mode = "running" /\ (CompleteFromZero \/ PastTheEnd)) ~> (mode = "returned")

\* [0xA9, 0x81, 0x69, 0xFF] on a new CPU has returned: 0x81 + 0xFF = 0x180.
C13_Witness ==
    /\ mode = "returned"
    /\ entry = CPU_new
    /\ commands = <<\hA9, \h81, \h69, \hFF>>
    /\ cpu.program_counter = 4
    /\ cpu.accumulator = \h80
    /\ contains(cpu.status, CARRY)

\* execute_commands has returned from a call entered with program_counter
\* past the end of a non-empty sequence.
C13_Reentered ==
    /\ mode = "returned"
    /\ Len(commands) > 0
    /\ entry.program_counter > Len(commands)
    /\ cpu = entry
\* C14: once lda, adc or tax has run on the CPU, directly or inside
\* execute_commands, Zero is set exactly when the accumulator is 0 and
\* Negative exactly when its bit 7 is 1, so the two are never set together.
C14_FlagsFollowAccumulator ==
    ~Called("new") =>
        /\ contains(cpu.status, ZERO) <=> cpu.accumulator = 0
        /\ contains(cpu.status, NEGATIVE) <=> Bit7(cpu.accumulator)
        /\ ~(contains(cpu.status, ZERO) /\ contains(cpu.status, NEGATIVE))

\* A tax after an adc that left 0x80 in the accumulator and another in X.
C14_Witness ==
    /\ Called("tax")
    /\ cpu.accumulator = \h80
    /\ cpu.register_x = \h80
    /\ contains(cpu.status, NEGATIVE)
    /\ ~contains(cpu.status, ZERO)
    /\ contains(cpu.status, CARRY)

SameFlag(f) == contains(cpu.status, f) <=> contains(call.self.status, f)

\* C15: no lda, adc, tax or execute_commands changes stack_pointer,
\* register_y or the InterruptDisable, DecimalMode and Break flags; lda and
\* tax leave Carry and Overflow as they were; lda and adc leave register_x
\* as it was.
C15_Frame ==
    /\ cpu.stack_pointer = CPU_new.stack_pointer
    /\ cpu.register_y = CPU_new.register_y
    /\ \A f \in {INTERRUPT_DISABLE, DECIMAL_MODE, BREAK} :
          contains(cpu.status, f) <=> contains(CPU_new.status, f)
    /\ cpu.stack_pointer = call.self.stack_pointer
    /\ cpu.register_y = call.self.register_y
    /\ SameFlag(INTERRUPT_DISABLE) /\ SameFlag(DECIMAL_MODE) /\ SameFlag(BREAK)
    /\ (Called("lda") \/ Called("tax")) => SameFlag(CARRY) /\ SameFlag(OVERFLOW)
    /\ (Called("lda") \/ Called("adc")) => cpu.register_x = call.self.register_x

\* lda(0) after tax and an adc that set Carry and Overflow: the flags and X stay.
C15_Witness ==
    /\ Called("lda")
    /\ call.value = 0
    /\ contains(cpu.status, CARRY)
    /\ contains(cpu.status, OVERFLOW)
    /\ contains(cpu.status, ZERO)
    /\ cpu.register_x = \h81
    /\ cpu.register_y = 0
====
